---------------------------- MODULE Spec2Model ----------------------------
(***************************************************************************)
(* A model of the job execution engine of executor/engine: the Engine      *)
(* (core.py), the Job lifecycle (job/base.py) and the DaskJob backend      *)
(* (job/dask.py).                                                          *)
(*                                                                         *)
(* Everything runs on one asyncio event loop, so a coroutine runs          *)
(* atomically from one suspension point (an await that really yields) to   *)
(* the next.  Each action below is one such stretch of code.  The          *)
(* suspension points of a lifecycle task are                               *)
(*   "poll"   not started yet, or in asyncio.sleep(wait_time_delta)        *)
(*   "run"    in await self.run()                                          *)
(*   "retry"  in asyncio.sleep(retry_time_delta) inside on_failed          *)
(* and a task that is no longer live is "finished" (returned),             *)
(* "cancelled" (CancelledError) or "error" (another exception escaped).    *)
(*                                                                         *)
(* The synchronous calls of Engine (submit's future, wait_job, wait,       *)
(* cancel_all, remove) are made from a caller thread: what they hand to    *)
(* the loop is in calls until it returns, and the latest return is in ret. *)
(* The loop itself is started by Engine.start and stopped by Engine.stop;  *)
(* except where these are the subject, the engine has been started.        *)
(***************************************************************************)
EXTENDS Integers, Sequences, FiniteSets, TLC

\* ------------------------------------------------------------------ bounds
NJobs == 2          \* job objects the caller constructs
MaxRetries == 1     \* largest retries= a job is constructed with
MaxSubmits == 2     \* submits of one job (the first and the re-submits)
MaxJobs == 2        \* largest max_jobs of the EngineSetting
MaxVal == 2         \* distinct values a job's callable can return
NCallbacks == 2     \* done-callbacks, and error-callbacks, registered per job
MaxCancelCalls == 1 \* DaskJob.cancel coroutines of one job in flight at once
MaxCalls == 2       \* calls of the engine's control surface that return

JobIds == 1..NJobs
Values == 1..MaxVal

\* --------------------------------------------------------------- constants
Null == -1          \* None, as the value of an Optional[int] setting
Inf == -2           \* float('inf'), the count of an unbounded resource
NoValue == 0        \* None, as a future's result before any run has returned

Classes == {"Job", "DaskJob"}
Terminal == {"done", "failed", "cancelled"}
LivePc == {"poll", "run", "retry"}
RunError == "error"            \* the exception the job's callable raises
CallbackError == "cb_error"    \* the exception a raising callback raises
NoException == "none"          \* future._exception before any run has failed
JobEmitError == "JobEmitError"          \* raised by Job.emit and Job.rerun
InvalidStateError == "InvalidStateError" \* raised by Job.result and Job.join

VARIABLES
  setting,       \* EngineSetting: [max_jobs, max_dask_jobs]
  resource,      \* Engine.resource: [n_job, n_dask], the remaining slots
  jobs,          \* Engine.jobs: the ids of the registered jobs
  cls,           \* cls[j]: the job's class, Job (any local backend) or DaskJob
  retries,       \* Job.retries
  raising,       \* raising[j] = [done, err]: the index of the done- (error-)
                 \* callback of j that raises when called, 0 when none does
  status,        \* Job.status
  retry_remain,  \* Job.retry_remain
  args,          \* Job.args followed by Job.kwargs.values(): a sequence of
                 \* [fut, val]; fut # 0 is the JobFuture of job fut
  dep_job_ids,   \* Job.dep_job_ids
  condition,     \* Job.condition: <<>> is None, otherwise the id lists of the
                 \* AfterOthers conditions joined by AllSatisfied
  tasks,         \* tasks[j]: the lifecycle tasks emitted for j, oldest first,
                 \* each at its suspension point; Job.task is the last one
  future,        \* Job.future: [result, exception]
  cancelling,    \* DaskJob.cancel coroutines of j suspended in
                 \* await self._executor.cancel()
  calls,         \* the coroutines the engine's control surface has handed to
                 \* the loop (run_coroutine_threadsafe) and that have not
                 \* returned yet
  ret,           \* the latest return of a call of the control surface:
                 \* [n, op, job, jobs, res, exc], n counting the returns
  loop,          \* Engine.loop: "created", "running" (in run_forever),
                 \* "stopping" (stop() called, the iteration not over yet)
                 \* or "stopped" (run_forever has returned)
  loop_thread,   \* Engine._loop_thread: "none", "alive" or "terminated"
  ready,         \* what was handed to the loop from another thread and has
                 \* not been run by it yet, oldest first
  dask_client,   \* Engine._dask_client: "none", "open" or "closed"
  \* history variables: they record what happened and decide nothing
  log,           \* what j's lifecycle did since j's latest submit, in order
  nsubmit,       \* submits of j so far
  held           \* slots j's tasks consumed and nobody released

vars == <<setting, resource, jobs, cls, retries, raising, status, retry_remain,
          args, dep_job_ids, condition, tasks, future, cancelling, calls, ret,
          loop, loop_thread, ready, dask_client, log, nsubmit, held>>

\* what the engine and the jobs were constructed with
fixed == <<setting, cls, retries, raising>>

\* what no step of a job and no call on a job changes, the first run of a
\* cluster job apart: the construction, the loop and the backend client
conf == <<fixed, loop, loop_thread, ready, dask_client>>

\* the control surface's calls in flight and its latest return
api == <<calls, ret>>


\* ------------------------------------------------------- the resource ledger
\* n > 0 on a count that may be float('inf')
Positive(n) == n = Inf \/ n > 0

\* n + d on a count that may be float('inf')
Plus(n, d) == IF n = Inf THEN Inf ELSE n + d

\* `x or float('inf')`: None and 0 are both falsy
OrInf(x) == IF x = Null \/ x = 0 THEN Inf ELSE x

\* Engine.setup_by_setting
setup_by_setting(s) ==
  [n_job |-> OrInf(s.max_jobs), n_dask |-> OrInf(s.max_dask_jobs)]

\* C24, mutant: a cluster job is admitted on the jobs_total class alone
has_resource_job_only(j, r) == Positive(r.n_job)

\* Job.has_resource, DaskJob.has_resource (the engine is bound by the first
\* submit, before any lifecycle task exists)
has_resource(j, r) ==
  IF cls[j] = "DaskJob"
    THEN Positive(r.n_job) /\ Positive(r.n_dask)
    ELSE Positive(r.n_job)

\* Job.consume_resource, DaskJob.consume_resource: the ledger afterwards
consume_resource(j, r) ==
  IF cls[j] = "DaskJob"
    THEN [n_job |-> Plus(r.n_job, -1), n_dask |-> Plus(r.n_dask, -1)]
    ELSE [r EXCEPT !.n_job = Plus(@, -1)]

\* Job.release_resource, DaskJob.release_resource: the ledger afterwards
release_resource(j, r) ==
  IF cls[j] = "DaskJob"
    THEN [n_job |-> Plus(r.n_job, 1), n_dask |-> Plus(r.n_dask, 1)]
    ELSE [r EXCEPT !.n_job = Plus(@, 1)]

\* ------------------------------------------------------------- conditions
\* AfterOthers(ids).satisfy(engine): every referenced job is registered and
\* terminal
AfterOthers_satisfy(ids) ==
  \A k \in DOMAIN ids : ids[k] \in jobs /\ status[ids[k]] \in Terminal

\* Condition.satisfy for the conditions resolve_dependencies builds
condition_satisfy(j) ==
  \A k \in DOMAIN condition[j] : AfterOthers_satisfy(condition[j][k])

\* Job.runnable
runnable(j) ==
  IF condition[j] # <<>>
    THEN condition_satisfy(j) /\ has_resource(j, resource)
    ELSE has_resource(j, resource)

\* ------------------------------------------------------------- the log
Ev(ev, i, val, s) == [ev |-> ev, i |-> i, val |-> val, s |-> s]
RunEv == Ev("run", 0, NoValue, "")                \* status set to running
DoneCbEv(i, res) == Ev("done_cb", i, res, "")     \* done_callbacks[i](res)
ErrCbEv(i, e) == Ev("err_cb", i, NoValue, e)      \* error_callbacks[i](e)
FailedEv(e) == Ev("on_failed", 0, NoValue, e)     \* on_failed(e) entered
FinishEv(st) == Ev("finish", 0, NoValue, st)      \* _on_finish(st)

\* the events of l whose kind is in kinds, in order
Filter(l, kinds) == SelectSeq(l, LAMBDA e : e.ev \in kinds)

Count(l, kinds) == Len(Filter(l, kinds))

\* the calls of callback k of kind ev ("done_cb" or "err_cb") in l
Calls(l, ev, k) == SelectSeq(l, LAMBDA e : e.ev = ev /\ e.i = k)

Callbacks == {"done_cb", "err_cb"}


\* --------------------------------------------------- dependency resolution
Lit(v) == [fut |-> 0, val |-> v]      \* an argument that is a plain value
Fut(a) == [fut |-> a, val |-> NoValue] \* an argument that is job a's future

\* the JobFuture arguments of an argument list, as job ids, in order
RECURSIVE FutureIds(_)
FutureIds(as) ==
  IF as = <<>> THEN <<>>
  ELSE IF Head(as).fut # 0
         THEN <<Head(as).fut>> \o FutureIds(Tail(as))
         ELSE FutureIds(Tail(as))

\* Job.resolve_dependencies: the condition afterwards
resolve_dependencies(j) ==
  IF Len(FutureIds(args[j])) > 0
    THEN Append(condition[j], FutureIds(args[j]))
    ELSE condition[j]

\* C3, mutant: the result of a failed upstream job is passed on as well
resolve_arg_failed_too(arg) ==
  IF arg.fut = 0 THEN [kind |-> "value", val |-> arg.val]
  ELSE IF arg.fut \in jobs /\ status[arg.fut] \in {"done", "failed"}
    THEN [kind |-> "value", val |-> future[arg.fut].result]
  ELSE IF arg.fut \in jobs /\ status[arg.fut] = "cancelled"
    THEN [kind |-> "stop", val |-> NoValue]
  ELSE [kind |-> "unreachable", val |-> NoValue]

\* Job._resolve_arg: "value" with the value the argument resolves to, "stop"
\* when the upstream job failed or was cancelled (this job is cancelled and
\* StopResolve raised), "unreachable" for the ExecutorError branch
resolve_arg(arg) ==
  IF arg.fut = 0 THEN [kind |-> "value", val |-> arg.val]
  ELSE IF arg.fut \in jobs /\ status[arg.fut] = "done"
    THEN [kind |-> "value", val |-> future[arg.fut].result]
  ELSE IF arg.fut \in jobs /\ status[arg.fut] \in {"failed", "cancelled"}
    THEN [kind |-> "stop", val |-> NoValue]
  ELSE [kind |-> "unreachable", val |-> NoValue]

\* Job.resolve_args: the arguments are resolved in order and the first one
\* that does not resolve to a value ends the resolution
RECURSIVE ResolveFrom(_, _)
ResolveFrom(as, acc) ==
  IF as = <<>> THEN [kind |-> "value", args |-> acc]
  ELSE LET r == resolve_arg(Head(as)) IN
       IF r.kind = "value"
         THEN ResolveFrom(Tail(as), Append(acc, Lit(r.val)))
         ELSE [kind |-> r.kind, args |-> acc]

resolve_args(j) ==
  IF Len(dep_job_ids[j]) > 0
    THEN ResolveFrom(args[j], <<>>)
    ELSE [kind |-> "value", args |-> args[j]]

\* ------------------------------------------------- a job's mutable state
\* What one stretch of a lifecycle task (task i of job j) or of a cancel can
\* change: the handlers below map such a record to the record afterwards.
\* pc is the suspension point of task i, exc an exception on its way out of
\* the handler.
JobState(j, i) ==
  [status |-> status[j], resource |-> resource,
   retry_remain |-> retry_remain[j], future |-> future[j],
   tasks |-> tasks[j], log |-> log[j], held |-> held[j],
   pc |-> IF i \in DOMAIN tasks[j] THEN tasks[j][i] ELSE "none",
   exc |-> NoException]

\* the tasks the program can still reach: the live ones and Job.task, the
\* last one emitted (a task that has ended and is not Job.task is garbage)
Reachable(ts) ==
  IF ts = <<>> THEN ts
  ELSE SelectSeq(SubSeq(ts, 1, Len(ts) - 1), LAMBDA pc : pc \in LivePc)
         \o <<ts[Len(ts)]>>

\* the state after the stretch: task i is where s.pc says, unless the stretch
\* cancelled it itself (a task that returns with a cancel requested ends
\* cancelled)
Store(j, i, s) ==
  /\ status' = [status EXCEPT ![j] = s.status]
  /\ resource' = s.resource
  /\ retry_remain' = [retry_remain EXCEPT ![j] = s.retry_remain]
  /\ future' = [future EXCEPT ![j] = s.future]
  /\ log' = [log EXCEPT ![j] = s.log]
  /\ held' = [held EXCEPT ![j] = s.held]
  /\ tasks' = [tasks EXCEPT ![j] = Reachable(
        IF i \in DOMAIN s.tasks /\ s.tasks[i] \in LivePc
          THEN [s.tasks EXCEPT ![i] = s.pc]
          ELSE s.tasks)]

\* Job._on_finish
on_finish(j, s, new_status) ==
  [s EXCEPT !.status = new_status,
            !.resource = release_resource(j, @),
            !.held = @ - 1,
            !.log = Append(@, FinishEv(new_status))]

\* the done-callbacks on_done calls with res, in order: all of them, or those
\* up to the one that raises
done_calls(j, res) ==
  [k \in 1..(IF raising[j].done = 0 THEN NCallbacks ELSE raising[j].done)
     |-> DoneCbEv(k, res)]

\* C7, mutant: the job is finished before its done-callbacks are called
on_done_finish_first(j, s, res) ==
  LET s1 == on_finish(j, [s EXCEPT !.future.result = res], "done")
  IN [s1 EXCEPT !.log = @ \o done_calls(j, res),
                !.exc = IF raising[j].done # 0 THEN CallbackError ELSE @]

\* Job.on_done
on_done(j, s, res) ==
  LET s1 == [s EXCEPT !.future.result = res,
                      !.log = @ \o done_calls(j, res)]
  IN IF raising[j].done # 0
       THEN [s1 EXCEPT !.exc = CallbackError]
       ELSE on_finish(j, s1, "done")

\* the error-callbacks on_failed calls with e, in order
err_calls(j, e) ==
  [k \in 1..(IF raising[j].err = 0 THEN NCallbacks ELSE raising[j].err)
     |-> ErrCbEv(k, e)]

\* C6, mutant: a retry is granted once more than retries allows
on_failed_once_more(j, s, e) ==
  LET s1 == [s EXCEPT !.future.exception = e,
                      !.log = Append(@, FailedEv(e)) \o err_calls(j, e),
                      !.exc = NoException]
  IN IF raising[j].err # 0
       THEN [s1 EXCEPT !.exc = CallbackError]
     ELSE IF s1.retry_remain >= 0
       THEN [on_finish(j, s1, "pending") EXCEPT
               !.retry_remain = @ - 1, !.pc = "retry"]
       ELSE on_finish(j, s1, "failed")

\* C8, mutant: the error-callbacks are called only when no retry is left
on_failed_callbacks_last(j, s, e) ==
  LET s1 == [s EXCEPT !.future.exception = e,
                      !.log = Append(@, FailedEv(e)),
                      !.exc = NoException]
      s2 == [s1 EXCEPT !.log = @ \o err_calls(j, e)]
  IN IF s1.retry_remain > 0
       THEN [on_finish(j, s1, "pending") EXCEPT
               !.retry_remain = @ - 1, !.pc = "retry"]
     ELSE IF raising[j].err # 0
       THEN [s2 EXCEPT !.exc = CallbackError]
       ELSE on_finish(j, s2, "failed")

\* Job.on_failed up to its suspension in asyncio.sleep(retry_time_delta), or
\* to its end when there is no retry (print_traceback only logs)
on_failed(j, s, e) ==
  LET s1 == [s EXCEPT !.future.exception = e,
                      !.log = Append(@, FailedEv(e)) \o err_calls(j, e),
                      !.exc = NoException]
  IN IF raising[j].err # 0
       THEN [s1 EXCEPT !.exc = CallbackError]
     ELSE IF s1.retry_remain > 0
       THEN [on_finish(j, s1, "pending") EXCEPT
               !.retry_remain = @ - 1, !.pc = "retry"]
       ELSE on_finish(j, s1, "failed")

\* asyncio.Task.cancel on Job.task: a live task never runs on
task_cancel(ts) ==
  IF ts = <<>> THEN ts
  ELSE [ts EXCEPT ![Len(ts)] = IF @ \in LivePc THEN "cancelled" ELSE @]

\* C9, mutant: cancelling a running job reports it to the error-callbacks
cancel_calls_back(j, s) ==
  LET s1 == [s EXCEPT !.tasks = task_cancel(@)]
  IN IF s1.status = "running"
       THEN on_finish(j, [s1 EXCEPT !.log = @ \o err_calls(j, RunError)],
                      "cancelled")
     ELSE IF s1.status = "pending" THEN [s1 EXCEPT !.status = "cancelled"]
     ELSE s1

\* C15, mutant: cancel finishes the job whatever its status is
cancel_any_status(j, s) ==
  on_finish(j, [s EXCEPT !.tasks = task_cancel(@)], "cancelled")

\* Job.cancel (clear_context does nothing in the base class and clears
\* _executor in DaskJob)
cancel(j, s) ==
  LET s1 == [s EXCEPT !.tasks = task_cancel(@)]
  IN IF s1.status = "running" THEN on_finish(j, s1, "cancelled")
     ELSE IF s1.status = "pending" THEN [s1 EXCEPT !.status = "cancelled"]
     ELSE s1


\* ------------------------------------------------------------ construction
\* the argument lists job j can be constructed with: one plain value, then
\* the futures of some of the jobs constructed before it
RECURSIVE FuturesOf(_, _)
FuturesOf(S, a) ==
  IF a = 0 THEN <<>>
  ELSE FuturesOf(S, a - 1) \o (IF a \in S THEN <<Fut(a)>> ELSE <<>>)

ArgChoices(j) == {<<Lit(1)>> \o FuturesOf(S, j - 1) : S \in SUBSET (1..(j - 1))}

Settings ==
  [max_jobs : {Null} \cup (0..MaxJobs), max_dask_jobs : {Null}]

NoRaise == [done |-> 0, err |-> 0]

\* no call of the control surface has returned yet
NoReturn ==
  [n |-> 0, op |-> "none", job |-> 0, jobs |-> {}, res |-> NoValue,
   exc |-> NoException]

\* Engine.__init__ and Job.__init__: nothing submitted yet
Constructed(ss, cs, rs) ==
  /\ setting \in ss
  /\ resource = setup_by_setting(setting)
  /\ jobs = {}
  /\ cls \in [JobIds -> cs]
  /\ retries \in [JobIds -> 0..MaxRetries]
  /\ raising \in [JobIds -> rs]
  /\ status = [j \in JobIds |-> "created"]
  /\ retry_remain = retries
  /\ args \in {f \in [JobIds -> UNION {ArgChoices(j) : j \in JobIds}] :
                 \A j \in JobIds : f[j] \in ArgChoices(j)}
  /\ dep_job_ids = [j \in JobIds |-> <<>>]
  /\ condition = [j \in JobIds |-> <<>>]
  /\ tasks = [j \in JobIds |-> <<>>]
  /\ future = [j \in JobIds |-> [result |-> NoValue, exception |-> NoException]]
  /\ cancelling = [j \in JobIds |-> 0]
  /\ calls = {}
  /\ ret = NoReturn
  /\ log = [j \in JobIds |-> <<>>]
  /\ nsubmit = [j \in JobIds |-> 0]
  /\ held = [j \in JobIds |-> 0]
  /\ ready = <<>>
  /\ dask_client = "none"

\* Engine.start on an engine just constructed: the thread is created and
\* runs loop.run_forever()
Started == loop = "running" /\ loop_thread = "alive"

\* an engine that has been started, as `with Engine() as engine` does
InitWith(ss, cs, rs) == Constructed(ss, cs, rs) /\ Started

\* ------------------------------------------------------------------ submit
\* C19, mutant: emit does not look at the job's status
emit_any_status(j, st, ts) ==
  /\ condition' = [condition EXCEPT ![j] = resolve_dependencies(j)]
  /\ dep_job_ids' = [dep_job_ids EXCEPT ![j] = FutureIds(args[j])]
  /\ tasks' = [tasks EXCEPT ![j] = Reachable(Append(ts, "poll"))]

\* Job.emit, called with the job's status st and its tasks ts
emit(j, st, ts) ==
  IF st # "pending"
    THEN \* JobEmitError
         /\ tasks' = [tasks EXCEPT ![j] = Reachable(ts)]
         /\ UNCHANGED <<condition, dep_job_ids>>
    ELSE /\ condition' = [condition EXCEPT ![j] = resolve_dependencies(j)]
         /\ dep_job_ids' = [dep_job_ids EXCEPT ![j] = FutureIds(args[j])]
         /\ tasks' = [tasks EXCEPT ![j] = Reachable(Append(ts, "poll"))]

\* Engine.submit_async (Engine.submit runs it on the loop)
submit_async(j) ==
  /\ nsubmit[j] < MaxSubmits
  /\ jobs' = IF status[j] = "created" THEN jobs \cup {j} ELSE jobs
  /\ status' = [status EXCEPT ![j] = "pending"]
  /\ emit(j, "pending", tasks[j])
  /\ nsubmit' = [nsubmit EXCEPT ![j] = @ + 1]
  /\ log' = [log EXCEPT ![j] = <<>>]
  /\ UNCHANGED <<conf, resource, retry_remain, args, future, cancelling, held>>

\* Engine.submit of a job as the admission rule requires it: never submitted,
\* or terminal
Submit(j) == status[j] \in {"created"} \cup Terminal /\ submit_async(j)

\* ------------------------------------------------------ the lifecycle task
\* Engine.dask_client, the property: the default client is created at the
\* first read
dask_client_get == IF dask_client = "none" THEN "open" ELSE dask_client

\* Job.wait_and_run from the top of its loop to the next suspension: the
\* runnability check, the slot, the arguments and the start of the run
\* (DaskJob.run reads engine.dask_client before it awaits); when the job is
\* not runnable the task sleeps and nothing changes
wait_and_run(j, i) ==
  /\ i \in DOMAIN tasks[j] /\ tasks[j][i] = "poll"
  /\ dask_client' =
       IF cls[j] = "DaskJob" /\ runnable(j) /\ resolve_args(j).kind = "value"
         THEN dask_client_get ELSE dask_client
  /\ IF runnable(j)
       THEN LET s0 == JobState(j, i)
                s1 == [s0 EXCEPT !.resource = consume_resource(j, @),
                                 !.held = @ + 1]
                r == resolve_args(j)
            IN CASE r.kind = "value" ->
                      /\ Store(j, i, [s1 EXCEPT !.status = "running",
                                                !.log = Append(@, RunEv),
                                                !.pc = "run"])
                      /\ args' = [args EXCEPT ![j] = r.args]
                 [] r.kind = "stop" ->
                      /\ Store(j, i, [cancel(j, s1) EXCEPT !.pc = "finished"])
                      /\ UNCHANGED args
                 [] OTHER ->
                      /\ Store(j, i, [s1 EXCEPT !.pc = "error"])
                      /\ UNCHANGED args
       ELSE UNCHANGED <<status, resource, retry_remain, future, log, held,
                        tasks, args>>
  /\ UNCHANGED <<fixed, loop, loop_thread, ready, jobs, dep_job_ids, condition,
                 cancelling, nsubmit>>

\* the except clause of wait_and_run: on_failed, then the task ends unless
\* on_failed is suspended in its retry delay
run_failed(j, s, e) ==
  LET s1 == on_failed(j, s, e)
  IN IF s1.exc # NoException THEN [s1 EXCEPT !.pc = "error"]
     ELSE IF s1.pc = "retry" THEN s1
     ELSE [s1 EXCEPT !.pc = "finished"]

\* the try clause of wait_and_run once run() has returned res
run_returned(j, s, res) ==
  LET s1 == on_done(j, s, res)
  IN IF s1.exc # NoException THEN run_failed(j, s1, s1.exc)
     ELSE [s1 EXCEPT !.pc = "finished"]

\* the backend's run() returns res
run_returns(j, i, res) ==
  /\ i \in DOMAIN tasks[j] /\ tasks[j][i] = "run"
  /\ Store(j, i, run_returned(j, JobState(j, i), res))
  /\ UNCHANGED <<conf, jobs, args, dep_job_ids, condition, cancelling, nsubmit>>

\* the backend's run() raises
run_raises(j, i) ==
  /\ i \in DOMAIN tasks[j] /\ tasks[j][i] = "run"
  /\ Store(j, i, run_failed(j, JobState(j, i), RunError))
  /\ UNCHANGED <<conf, jobs, args, dep_job_ids, condition, cancelling, nsubmit>>

\* Job.on_failed after its retry delay: rerun(check_status=False), which
\* emits a new task, and then the old task ends
rerun(j, i) ==
  /\ i \in DOMAIN tasks[j] /\ tasks[j][i] = "retry"
  /\ status' = [status EXCEPT ![j] = "pending"]
  /\ emit(j, "pending", [tasks[j] EXCEPT ![i] = "finished"])
  /\ UNCHANGED <<conf, resource, jobs, retry_remain, args, future, cancelling,
                 log, nsubmit, held>>

\* ------------------------------------------------------------------ cancel
\* Engine.cancel of a job whose cancel has no suspension point: Job.cancel,
\* and DaskJob.cancel of a job that is not running.  A job never emitted has
\* no task and the call raises.
engine_cancel(j) ==
  /\ cls[j] = "Job" \/ status[j] # "running"
  /\ IF tasks[j] = <<>>
       THEN UNCHANGED <<status, resource, retry_remain, future, log, held, tasks>>
       ELSE Store(j, 0, cancel(j, JobState(j, 0)))
  /\ UNCHANGED <<conf, jobs, args, dep_job_ids, condition, cancelling, nsubmit>>

\* DaskJob.cancel of a running job, up to await self._executor.cancel()
dask_cancel_begin(j) ==
  /\ cls[j] = "DaskJob" /\ status[j] = "running"
  /\ cancelling[j] < MaxCancelCalls
  /\ cancelling' = [cancelling EXCEPT ![j] = @ + 1]
  /\ UNCHANGED <<conf, resource, jobs, status, retry_remain, args, dep_job_ids,
                 condition, tasks, future, log, nsubmit, held>>

\* the cancelled dask future raises CancelledError in the task awaiting it
dask_future_cancelled(j, i) ==
  /\ cancelling[j] > 0
  /\ i \in DOMAIN tasks[j] /\ tasks[j][i] = "run"
  /\ tasks' = [tasks EXCEPT ![j] = Reachable([@ EXCEPT ![i] = "cancelled"])]
  /\ UNCHANGED <<conf, resource, jobs, status, retry_remain, args, dep_job_ids,
                 condition, future, cancelling, log, nsubmit, held>>

\* DaskJob.cancel after the await: super().cancel()
dask_cancel_end(j) ==
  /\ cancelling[j] > 0
  /\ cancelling' = [cancelling EXCEPT ![j] = @ - 1]
  /\ Store(j, 0, cancel(j, JobState(j, 0)))
  /\ UNCHANGED <<conf, jobs, args, dep_job_ids, condition, nsubmit>>

\* ---------------------------------------------------------- specifications
TaskIds(j) == DOMAIN tasks[j]

\* the steps below are taken with no call of the rest of the control
\* surface in flight
Lifecycle ==
  \E j \in JobIds :
    \/ \E i \in TaskIds(j) : wait_and_run(j, i) /\ UNCHANGED api
    \/ \E i \in TaskIds(j), res \in Values :
         run_returns(j, i, res) /\ UNCHANGED api
    \/ \E i \in TaskIds(j) : run_raises(j, i) /\ UNCHANGED api
    \/ \E i \in TaskIds(j) : rerun(j, i) /\ UNCHANGED api

Control ==
  \E j \in JobIds :
    \/ Submit(j) /\ UNCHANGED api
    \/ engine_cancel(j) /\ UNCHANGED api

DaskCancel ==
  \E j \in JobIds :
    \/ dask_cancel_begin(j) /\ UNCHANGED api
    \/ \E i \in TaskIds(j) : dask_future_cancelled(j, i) /\ UNCHANGED api
    \/ dask_cancel_end(j) /\ UNCHANGED api

Next == Lifecycle \/ Control

\* jobs of the local backends; every callback returns normally, as the
\* callback surface requires
Init == InitWith(Settings, {"Job"}, {NoRaise})

Spec == Init /\ [][Next]_vars

\* the event loop runs every task that is ready: a polling task wakes up, a
\* backend run ends, a retry delay elapses
Fairness ==
  \A j \in JobIds :
    /\ WF_vars(\E i \in TaskIds(j) : wait_and_run(j, i) /\ UNCHANGED api)
    /\ WF_vars(\E i \in TaskIds(j) :
                 \/ \E res \in Values : run_returns(j, i, res) /\ UNCHANGED api
                 \/ run_raises(j, i) /\ UNCHANGED api)
    /\ WF_vars(\E i \in TaskIds(j) : rerun(j, i) /\ UNCHANGED api)

\* a bounded jobs_total
InitFair ==
  InitWith([max_jobs : 1..MaxJobs, max_dask_jobs : {Null}], {"Job"}, {NoRaise})

SpecFair == InitFair /\ [][Next]_vars /\ Fairness

\* callbacks that raise: the first done-callback, or the first
\* error-callback, of a job
RaisingChoices ==
  {NoRaise, [done |-> 1, err |-> 0], [done |-> 0, err |-> 1]}

InitThrow == InitWith(Settings, {"Job"}, RaisingChoices)

SpecThrow == InitThrow /\ [][Next]_vars

\* local jobs and cluster jobs, with a bounded or unbounded cluster
DaskSettings == [max_jobs : {Null, 1}, max_dask_jobs : {Null, 1}]

InitDask == InitWith(DaskSettings, Classes, {NoRaise})

NextDask == Next \/ DaskCancel

SpecDask == InitDask /\ [][NextDask]_vars


\* ------------------------------------------------------ derived quantities
Running == {j \in JobIds : status[j] = "running"}

\* the capacity of jobs_total the engine was configured with
Capacity == setup_by_setting(setting).n_job

\* the futures among the arguments of b
FutureArgs(b) == {k \in DOMAIN args[b] : args[b][k].fut # 0}

\* job b's status becomes running in this step
Starts(b) == status[b] # "running" /\ status'[b] = "running"

\* ------------------------------------------------------------------ claims
\* C1: ledger conservation.  In every reachable state the remaining
\* jobs_total slots plus one slot per running job equal the configured
\* capacity, so 0 <= remaining <= capacity.
C1_LedgerConservation ==
  Capacity # Inf =>
    /\ resource.n_job + Cardinality(Running) = Capacity
    /\ 0 <= resource.n_job /\ resource.n_job <= Capacity

\* C2: concurrency cap.  With max_jobs = N, a non-null integer N >= 0, no
\* more than N jobs are ever running at once.
C2_ConcurrencyCap ==
  setting.max_jobs # Null => Cardinality(Running) <= setting.max_jobs

\* C3: dependency ordering.  When the status of a job b becomes running,
\* every job a whose future is an argument of b is done, and that argument
\* of b has been replaced by a's result.
C3_DependencyOrdering ==
  [][\A b \in JobIds : Starts(b) =>
       \A k \in FutureArgs(b) :
         /\ status[args[b][k].fut] = "done"
         /\ args'[b][k] = Lit(future[args[b][k].fut].result)]_vars

\* C3, witness: a job runs on arguments it resolved from futures
C3_Witness ==
  \E b \in JobIds :
    /\ status[b] = "running" /\ Len(dep_job_ids[b]) > 0
    /\ FutureArgs(b) = {}


\* C5: cancel postcondition.  When cancel is called on a pending or running
\* job (Job.cancel, or DaskJob.cancel, which passes its await only for a
\* running job), the job is cancelled and holds no slot when cancel returns.
CancelReturns(j) ==
  \/ status[j] \in {"pending", "running"} /\ engine_cancel(j)
  \/ dask_cancel_end(j)

C5_CancelPostcondition ==
  [][\A j \in JobIds : CancelReturns(j) =>
       status'[j] = "cancelled" /\ held'[j] = 0]_vars


\* the registered jobs that take the future of a, directly or through other
\* registered jobs
RECURSIVE DescendantsWithin(_, _)
DescendantsWithin(S, n) ==
  IF n = 0 THEN S
  ELSE DescendantsWithin(
         S \cup {b \in jobs : \E k \in FutureArgs(b) : args[b][k].fut \in S},
         n - 1)

Descendants(a) == DescendantsWithin({a}, NJobs) \ {a}

Failed(a) == a \in jobs /\ status[a] \in {"failed", "cancelled"}

\* C4: failure propagation.  Once job a has ended failed or cancelled, every
\* submitted job that takes a's future, directly or transitively, is
\* eventually cancelled (for as long as a stays failed or cancelled), and it
\* never starts running.
C4_FailurePropagation ==
  /\ \A a, b \in JobIds :
       [](Failed(a) /\ b \in Descendants(a) /\ setting.max_jobs # 0
            => <>(status[b] = "cancelled" \/ ~Failed(a)))
  /\ [][\A a, b \in JobIds :
          Failed(a) /\ b \in Descendants(a) => ~Starts(b)]_vars


\* the runs of j started since its latest submit
Runs(j) == Count(log[j], {"run"})

\* j was submitted once, no run of it has returned, it was not cancelled
OnlyRaised(j) ==
  nsubmit[j] = 1 /\ future[j].result = NoValue /\ status[j] # "cancelled"

LastEvents(l, n) == SubSeq(l, Len(l) - n + 1, Len(l))

\* C7: done-callbacks.  When a job is done, its latest events are the start
\* of the run, then every done-callback once, in insertion order, with the
\* result, and only then the finish; no done-callback is called otherwise.
C7_DoneCallbacks ==
  \A j \in JobIds :
    /\ status[j] = "done" =>
         /\ Len(log[j]) >= NCallbacks + 2
         /\ LastEvents(log[j], NCallbacks + 2) =
              <<RunEv>> \o [k \in 1..NCallbacks |-> DoneCbEv(k, future[j].result)]
                        \o <<FinishEv("done")>>
    /\ Count(log[j], {"done_cb"}) = IF status[j] = "done" THEN NCallbacks ELSE 0

\* C7, witness: a dependent job runs on the result of a done job
C7_Witness ==
  \E a, b \in JobIds :
    /\ status[a] = "done" /\ Count(log[a], {"done_cb"}) = NCallbacks
    /\ status[b] = "running" /\ dep_job_ids[b] = <<a>>

\* C8 as claimed: a job submitted once that ended failed has had each of its
\* error-callbacks called exactly once, with the exception.
C8_ErrorCallbackOnce ==
  \A j \in JobIds : nsubmit[j] = 1 /\ status[j] = "failed" =>
    \A k \in 1..NCallbacks :
      Calls(log[j], "err_cb", k) = <<ErrCbEv(k, future[j].exception)>>

\* every on_failed in l is followed by all the error-callbacks, in insertion
\* order, with its exception
ErrorCallbacksFollow(l) ==
  \A p \in DOMAIN l : l[p].ev = "on_failed" =>
    /\ Len(l) >= p + NCallbacks
    /\ \A k \in 1..NCallbacks : l[p + k] = ErrCbEv(k, l[p].s)

\* C8 as amended: a job submitted once with retries = N that ended failed has
\* had each of its error-callbacks called N + 1 times, once for every failed
\* run, with that run's exception.
C8_ErrorCallbackPerFailure ==
  \A j \in JobIds : nsubmit[j] = 1 /\ status[j] = "failed" =>
    /\ Count(log[j], {"on_failed"}) = retries[j] + 1
    /\ ErrorCallbacksFollow(log[j])
    /\ \A k \in 1..NCallbacks :
         Len(Calls(log[j], "err_cb", k)) = retries[j] + 1

\* C8, witness: a job has failed for good after a retry
C8_Witness ==
  \E j \in JobIds :
    /\ nsubmit[j] = 1 /\ status[j] = "failed" /\ retries[j] >= 1
    /\ Len(Calls(log[j], "err_cb", 1)) = 2

\* C9 as claimed: a job whose submit ended cancelled has had no callback
\* called during that submit.
C9_NoCallbackOnCancelled ==
  \A j \in JobIds :
    status[j] = "cancelled" => Count(log[j], Callbacks) = 0

\* C9 as amended: the step that leaves a job cancelled calls none of its
\* callbacks, and a job cancelled before any run of that submit had failed
\* has had no callback called during that submit.
C9_NoCallbackByCancel ==
  /\ [](\A j \in JobIds :
          status[j] = "cancelled" /\ Count(log[j], {"on_failed"}) = 0 =>
            Count(log[j], Callbacks) = 0)
  /\ [][\A j \in JobIds : status'[j] = "cancelled" =>
          Filter(log'[j], Callbacks) = Filter(log[j], Callbacks)]_vars

\* C9, witness: a job is cancelled after a failed run called its
\* error-callbacks
C9_Witness ==
  \E j \in JobIds :
    /\ status[j] = "cancelled"
    /\ Count(log[j], {"on_failed"}) >= 1
    /\ Count(log[j], {"err_cb"}) >= NCallbacks

\* C10: callback exceptions do not affect the lifecycle.  Whenever on_done
\* has called the first done-callback, all the done-callbacks follow and then
\* the job is finished as done; whenever on_failed has run, all the
\* error-callbacks follow and then the job is finished (pending for a retry,
\* or failed), which releases its slot.
C10_CallbackExceptionsContained ==
  \A j \in JobIds : \A p \in DOMAIN log[j] :
    /\ log[j][p].ev = "done_cb" /\ log[j][p].i = 1 =>
         /\ Len(log[j]) >= p + NCallbacks
         /\ \A k \in 1..NCallbacks :
              log[j][p + k - 1] = DoneCbEv(k, log[j][p].val)
         /\ log[j][p + NCallbacks] = FinishEv("done")
    /\ log[j][p].ev = "on_failed" =>
         /\ Len(log[j]) >= p + NCallbacks + 1
         /\ \A k \in 1..NCallbacks : log[j][p + k] = ErrCbEv(k, log[j][p].s)
         /\ log[j][p + NCallbacks + 1] \in
              {FinishEv("pending"), FinishEv("failed")}


\* ------------------------------------------------ waiting for a job's task
\* Job.task: where the task emitted last is, "none" before any emit
TaskOf(j) == IF tasks[j] = <<>> THEN "none" ELSE tasks[j][Len(tasks[j])]

\* a coroutine handed to the loop: op is what it runs, who the operation of
\* the control surface that issued it, sub the submit of the job it was
\* issued in, woken whether the task it awaits has ended, queue the jobs it
\* has still to cancel, snap the jobs it was issued for
Call(op, j, who, woken, queue, snap) ==
  [op |-> op, job |-> j, who |-> who,
   sub |-> IF j \in JobIds THEN nsubmit[j] ELSE 0, woken |-> woken,
   queue |-> queue, snap |-> snap]

\* a call returns to its caller
Return(op, j, S, res, exc) ==
  [n |-> ret.n + 1, op |-> op, job |-> j, jobs |-> S, res |-> res, exc |-> exc]

\* one more call of the control surface can be made
CallsLeft == ret.n + Cardinality(calls) < MaxCalls

\* Job.join up to its await: asyncio.wait([self.task]) waits for the task
\* that is Job.task now, and not at all when that task has ended already
join(j, who) == Call("join", j, who, TaskOf(j) \notin LivePc, <<>>, {})

\* what a step of job j does to the coroutines suspended in Job.join of j:
\* they are woken when the task they await ends, which it does when it
\* returns, raises or is cancelled, and when it has emitted the task of a
\* retry (replaced: Job.rerun returns into on_failed, which returns)
Wake(j, replaced) ==
  /\ calls' = {IF c.op = "join" /\ c.job = j
                    /\ (replaced \/ TaskOf(j)' \notin LivePc)
                 THEN [c EXCEPT !.woken = TRUE] ELSE c : c \in calls}
  /\ ret' = ret

\* Engine.submit: submit_async on the loop, then wait_run() is handed to the
\* loop and its future returned
submit(j) ==
  /\ CallsLeft
  /\ Submit(j)
  /\ calls' = calls \cup {[Call("wait_run", j, "submit", FALSE, <<>>, {})
                             EXCEPT !.sub = nsubmit'[j]]}
  /\ ret' = ret

\* wait_run of Engine.submit starts: await job.join()
wait_run(c) ==
  /\ c \in calls /\ c.op = "wait_run"
  /\ calls' = (calls \ {c}) \cup {[join(c.job, "submit") EXCEPT !.sub = c.sub]}
  /\ UNCHANGED <<conf, resource, jobs, status, retry_remain, args, dep_job_ids,
                 condition, tasks, future, cancelling, ret, log, nsubmit, held>>

\* Engine.wait_job without a timeout, of a job that has been emitted: join()
\* is handed to the loop and the caller blocks on it
wait_job(j) ==
  /\ CallsLeft
  /\ tasks[j] # <<>>
  /\ calls' = calls \cup {join(j, "wait_job")}
  /\ UNCHANGED <<conf, resource, jobs, status, retry_remain, args, dep_job_ids,
                 condition, tasks, future, cancelling, ret, log, nsubmit, held>>

\* what wait_run returns after the join: the result of a done job, otherwise
\* the stored exception
wait_run_value(j) ==
  IF status[j] = "done"
    THEN [res |-> future[j].result, exc |-> NoException]
    ELSE [res |-> NoValue, exc |-> future[j].exception]

\* Job.join returns to a woken coroutine: wait_job returns to its caller, the
\* future of Engine.submit resolves
join_returns(c) ==
  /\ c \in calls /\ c.op = "join" /\ c.woken
  /\ calls' = calls \ {c}
  /\ ret' = IF c.who = "submit"
              THEN Return("future", c.job, {}, wait_run_value(c.job).res,
                          wait_run_value(c.job).exc)
              ELSE Return("wait_job", c.job, {}, NoValue, NoException)
  /\ UNCHANGED <<conf, resource, jobs, status, retry_remain, args, dep_job_ids,
                 condition, tasks, future, cancelling, log, nsubmit, held>>

\* the lifecycle and the cancels, with coroutines waiting in Job.join
LifecycleWoken ==
  \E j \in JobIds :
    \/ \E i \in TaskIds(j) : wait_and_run(j, i) /\ Wake(j, FALSE)
    \/ \E i \in TaskIds(j), res \in Values :
         run_returns(j, i, res) /\ Wake(j, FALSE)
    \/ \E i \in TaskIds(j) : run_raises(j, i) /\ Wake(j, FALSE)
    \/ \E i \in TaskIds(j) : rerun(j, i) /\ Wake(j, TRUE)
    \/ engine_cancel(j) /\ Wake(j, FALSE)

Waiting ==
  \/ \E j \in JobIds : submit(j)
  \/ \E j \in JobIds : wait_job(j)
  \/ \E c \in calls : wait_run(c)
  \/ \E c \in calls : join_returns(c)

NextJoin == LifecycleWoken \/ Waiting

InitJoin ==
  InitWith([max_jobs : {Null, 1}, max_dask_jobs : {Null}], {"Job"}, {NoRaise})

SpecJoin == InitJoin /\ [][NextJoin]_vars

\* the job of c has been terminal since the submit c was issued in
WasTerminal(c) == nsubmit[c.job] > c.sub \/ status[c.job] \in Terminal

\* C11: submit future.  When the future that Engine.submit returned for a
\* submit of a job resolves, the job has reached a terminal state in that
\* submit; if it is still there, the future resolves to the job's result
\* when it is done and to its exception when it is failed.
C11_SubmitFuture ==
  [][\A c \in calls : c.who = "submit" /\ join_returns(c) =>
       /\ WasTerminal(c)
       /\ nsubmit[c.job] = c.sub /\ status[c.job] = "done" =>
            ret'.res = future[c.job].result /\ ret'.exc = NoException
       /\ nsubmit[c.job] = c.sub /\ status[c.job] = "failed" =>
            ret'.exc = future[c.job].exception /\ ret'.res = NoValue]_vars

\* C12: wait_job.  When Engine.wait_job(job), called without a timeout on an
\* emitted job, returns, the job has reached a terminal state since the
\* call.
C12_WaitJob ==
  [][\A c \in calls : c.who = "wait_job" /\ join_returns(c) =>
       WasTerminal(c)]_vars


\* ------------------------------------------- the blocking calls of Engine
\* Jobs.running and Jobs.pending: the registered jobs by status
running_view == {j \in jobs : status[j] = "running"}
pending_view == {j \in jobs : status[j] = "pending"}

\* the lists a view's values() can be: its jobs in some order
Orders(S) ==
  {q \in UNION {[1..n -> S] : n \in {Cardinality(S)}} :
     \A a, b \in DOMAIN q : a # b => q[a] # q[b]}

\* one caller thread: it makes no call while it is blocked in another
Idle == calls = {} /\ CallsLeft

\* a call in flight returns to its caller
Returns(c, r) == calls' = calls \ {c} /\ ret' = r

\* C13, mutant: wait looks at the pending jobs instead of the running ones
wait_finished_pending == Cardinality(pending_view) = 0

\* Engine.wait without a timeout: the test that ends its polling loop
wait_finished == Cardinality(running_view) = 0

\* Engine.wait is called: the jobs submitted so far are noted for the claim
wait_call ==
  /\ Idle
  /\ calls' = {Call("wait", 0, "wait", FALSE, <<>>,
                    {j \in JobIds : nsubmit[j] > 0})}
  /\ UNCHANGED <<conf, resource, jobs, status, retry_remain, args, dep_job_ids,
                 condition, tasks, future, cancelling, ret, log, nsubmit, held>>

\* Engine.wait returns at the first poll that finds no running job
wait_returns(c) ==
  /\ c \in calls /\ c.op = "wait"
  /\ wait_finished
  /\ Returns(c, Return("wait", 0, c.snap, NoValue, NoException))
  /\ UNCHANGED <<conf, resource, jobs, status, retry_remain, args, dep_job_ids,
                 condition, tasks, future, cancelling, log, nsubmit, held>>

\* Engine.cancel_all is called: job.cancel() of every pending, then of every
\* running job is handed to the loop
cancel_all_call ==
  /\ Idle
  /\ \E p \in Orders(pending_view), r \in Orders(running_view) :
       calls' = {Call("cancel_all", 0, "cancel_all", FALSE, p \o r,
                      pending_view \cup running_view)}
  /\ UNCHANGED <<conf, resource, jobs, status, retry_remain, args, dep_job_ids,
                 condition, tasks, future, cancelling, ret, log, nsubmit, held>>

\* Engine.remove is called: job.cancel() is handed to the loop if the job is
\* pending or running
remove_call(j) ==
  /\ Idle
  /\ j \in jobs
  /\ calls' = {IF status[j] \in {"running", "pending"}
                 THEN Call("remove", j, "remove", FALSE, <<j>>, {j})
                 ELSE Call("remove", j, "remove", FALSE, <<>>, {})}
  /\ UNCHANGED <<conf, resource, jobs, status, retry_remain, args, dep_job_ids,
                 condition, tasks, future, cancelling, ret, log, nsubmit, held>>

\* the loop runs the next job.cancel() of a cancel_all or a remove
cancel_next(c) ==
  /\ c \in calls /\ c.op \in {"cancel_all", "remove"} /\ c.queue # <<>>
  /\ engine_cancel(Head(c.queue))
  /\ calls' = (calls \ {c}) \cup {[c EXCEPT !.queue = Tail(@)]}
  /\ ret' = ret

\* Engine.cancel_all returns: wait(futures) has seen every cancel return
cancel_all_returns(c) ==
  /\ c \in calls /\ c.op = "cancel_all" /\ c.queue = <<>>
  /\ Returns(c, Return("cancel_all", 0, c.snap, NoValue, NoException))
  /\ UNCHANGED <<conf, resource, jobs, status, retry_remain, args, dep_job_ids,
                 condition, tasks, future, cancelling, log, nsubmit, held>>

\* Engine.remove returns: the cancel, if any, has returned and the job is
\* taken out of the registry
remove_returns(c) ==
  /\ c \in calls /\ c.op = "remove" /\ c.queue = <<>>
  /\ jobs' = jobs \ {c.job}
  /\ Returns(c, Return("remove", c.job, c.snap, NoValue, NoException))
  /\ UNCHANGED <<conf, resource, status, retry_remain, args, dep_job_ids,
                 condition, tasks, future, cancelling, log, nsubmit, held>>

\* Engine.cancel of an emitted job returns to its caller; noted with it is
\* whether the job was pending or running
cancel_returns(j) ==
  /\ Idle
  /\ tasks[j] # <<>>
  /\ engine_cancel(j)
  /\ calls' = calls
  /\ ret' = Return("cancel", j,
                   IF status[j] \in {"pending", "running"} THEN {j} ELSE {},
                   NoValue, NoException)

\* submit and cancel by the caller thread, of jobs it has not removed
CallerSubmits ==
  \E j \in JobIds :
    Idle /\ (status[j] = "created" \/ j \in jobs) /\ Submit(j) /\ UNCHANGED api

CallerCancels ==
  \E j \in JobIds : Idle /\ engine_cancel(j) /\ UNCHANGED api

Caller == CallerSubmits \/ CallerCancels

Cancels == \E j \in JobIds : cancel_returns(j)

Waits ==
  \/ wait_call
  \/ \E c \in calls : wait_returns(c)

CancelsAll ==
  \/ cancel_all_call
  \/ \E c \in calls : cancel_next(c)
  \/ \E c \in calls : cancel_all_returns(c)

Removes ==
  \/ \E j \in JobIds : remove_call(j)
  \/ \E c \in calls : cancel_next(c)
  \/ \E c \in calls : remove_returns(c)

InitBlocking ==
  InitWith([max_jobs : {Null, 1}, max_dask_jobs : {Null}], {"Job"}, {NoRaise})

\* a caller that submits, cancels and waits for the engine
SpecWait == InitBlocking /\ [][Lifecycle \/ Caller \/ Waits]_vars

\* a caller that submits, cancels and cancels all
SpecCancelAll == InitBlocking /\ [][Lifecycle \/ Caller \/ CancelsAll]_vars

\* a caller that submits, cancels and removes
SpecRemove == InitBlocking /\ [][Lifecycle \/ Caller \/ Removes]_vars

\* a caller that submits and cancels
SpecCancel == InitBlocking /\ [][Lifecycle \/ CallerSubmits \/ Cancels]_vars

C14_CancelAll ==
  [][\A c \in calls : cancel_all_returns(c) =>
       \A j \in c.snap : status[j] = "cancelled" /\ held[j] = 0]_vars

\* C18: removal.  When Engine.remove(job) returns, the job is not in the
\* registry; if it was pending or running when remove was called, it is
\* cancelled, its lifecycle task has ended and it holds no slot.
C18_Removal ==
  [][\A c \in calls : remove_returns(c) =>
       /\ c.job \notin jobs'
       /\ c.snap # {} =>
            /\ status'[c.job] = "cancelled"
            /\ TaskOf(c.job) \notin LivePc
            /\ held'[c.job] = 0]_vars


\* C15: cancel is idempotent on terminal jobs.  Engine.cancel of a job that
\* is done, failed or cancelled leaves its status, its stored result and
\* exception, its retry_remain and the ledger as they are and calls no
\* callback.
C15_CancelIdempotent ==
  [][\A j \in JobIds : status[j] \in Terminal /\ cancel_returns(j) =>
       /\ status'[j] = status[j]
       /\ future'[j] = future[j]
       /\ retry_remain'[j] = retry_remain[j]
       /\ resource' = resource
       /\ held' = held
       /\ tasks'[j] = tasks[j]
       /\ log'[j] = log[j]]_vars

\* C15, witness: cancel has returned for a job that was terminal already
C15_Witness ==
  ret.op = "cancel" /\ ret.jobs = {} /\ status[ret.job] \in Terminal


\* ------------------------------------- submits and emits of a job in flight
\* Job.emit called by the program itself on a job that is not pending (an
\* emit of a pending job is what submit_async and rerun do)
emit_call(j) ==
  /\ CallsLeft
  /\ status[j] # "pending"
  /\ emit(j, status[j], tasks[j])
  /\ calls' = calls
  /\ ret' = Return("emit", j, {}, NoValue,
                   IF status[j] # "pending" THEN JobEmitError ELSE NoException)
  /\ UNCHANGED <<conf, resource, jobs, status, retry_remain, args, future,
                 cancelling, log, nsubmit, held>>

\* a caller that submits a job in whatever status it is
NextLive ==
  \/ Lifecycle
  \/ \E j \in JobIds : submit_async(j) /\ UNCHANGED api
  \/ \E j \in JobIds : engine_cancel(j) /\ UNCHANGED api

\* one slot; the first job is retried, the second is not
InitLive ==
  /\ InitWith([max_jobs : {1}, max_dask_jobs : {Null}], {"Job"}, {NoRaise})
  /\ retries = [j \in JobIds |-> IF j = 1 THEN MaxRetries ELSE 0]

SpecLive == InitLive /\ [][NextLive]_vars

\* a program that emits jobs itself
NextEmit == Next \/ \E j \in JobIds : emit_call(j)

SpecEmit == InitBlocking /\ [][NextEmit]_vars

\* C16: admission precondition.  A submit of a job that is pending or
\* running is rejected: it leaves the job's status, its lifecycle tasks and
\* the ledger as they are.
C16_AdmissionPrecondition ==
  [][\A j \in JobIds :
       status[j] \in {"pending", "running"} /\ submit_async(j) =>
         /\ status'[j] = status[j]
         /\ tasks'[j] = tasks[j]
         /\ resource' = resource]_vars

\* C17: retry budget on re-submit.  A re-submit of a terminal job sets
\* retry_remain back to the job's retries.
C17_RetryBudgetOnResubmit ==
  [][\A j \in JobIds : status[j] \in Terminal /\ Submit(j) =>
       retry_remain'[j] = retries[j]]_vars

\* C19: emission precondition.  Job.emit of a job that is not pending fails
\* with the emit error; no lifecycle task is spawned and the job's status,
\* condition and dep_job_ids are unchanged.
C19_EmitPrecondition ==
  [][\A j \in JobIds : status[j] # "pending" /\ emit_call(j) =>
       /\ ret'.exc = JobEmitError
       /\ tasks'[j] = tasks[j]
       /\ status'[j] = status[j]
       /\ condition'[j] = condition[j]
       /\ dep_job_ids'[j] = dep_job_ids[j]]_vars

\* C19, witness: emit has failed on a job that was running and had a future
\* among its arguments
C19_Witness ==
  /\ ret.op = "emit" /\ ret.exc = JobEmitError
  /\ status[ret.job] = "running" /\ Len(dep_job_ids[ret.job]) > 0


\* ------------------------------------------------------------ result access
\* C20, mutant: result() hands out the stored value whatever the status is
result_any_status(j) == [err |-> NoException, val |-> future[j].result]

\* Job.result: the stored value of a done job, InvalidStateError otherwise
result(j) ==
  IF status[j] # "done"
    THEN [err |-> InvalidStateError, val |-> NoValue]
    ELSE [err |-> NoException, val |-> future[j].result]

\* the value the most recent successful run of j handed to on_done
LastReturned(j) ==
  IF Count(log[j], {"done_cb"}) = 0 THEN NoValue
  ELSE Filter(log[j], {"done_cb"})[Count(log[j], {"done_cb"})].val

\* C20: result access.  In every reachable state Job.result() fails with the
\* invalid-state error when the job is not done, and returns the value of
\* the job's most recent successful run when it is done.
C20_ResultAccess ==
  \A j \in JobIds :
    IF status[j] = "done"
      THEN /\ LastReturned(j) \in Values
           /\ result(j) = [err |-> NoException, val |-> LastReturned(j)]
      ELSE result(j) = [err |-> InvalidStateError, val |-> NoValue]

\* C20, witness: a job that was done is running again after a re-submit, its
\* earlier value still stored in its future
C20_Witness ==
  \E j \in JobIds :
    /\ nsubmit[j] = 2 /\ status[j] = "running"
    /\ future[j].result # NoValue


\* ------------------------------------------------------- waits that time out
\* C21, mutant: the timeout cancels the task that was waited for, as
\* asyncio.wait_for would
wait_for_timeout(ts) == task_cancel(ts)

\* asyncio.wait([self.task], timeout) in Job.join when the timeout elapses:
\* it returns what is done and what is pending and cancels nothing
asyncio_wait_timeout(ts) == ts

\* the calls of the control surface that were given a timeout
TimedOps == {"wait_job_timeout", "wait_timeout", "join_timeout"}

\* Engine.wait_job(job, timeout) of an emitted job
wait_job_timeout(j) ==
  /\ Idle
  /\ tasks[j] # <<>>
  /\ calls' = calls \cup {join(j, "wait_job_timeout")}
  /\ UNCHANGED <<conf, resource, jobs, status, retry_remain, args, dep_job_ids,
                 condition, tasks, future, cancelling, ret, log, nsubmit, held>>

\* Engine.wait(timeout) is called
wait_timeout ==
  /\ Idle
  /\ calls' = calls \cup {Call("wait", 0, "wait_timeout", FALSE, <<>>,
                               running_view)}
  /\ UNCHANGED <<conf, resource, jobs, status, retry_remain, args, dep_job_ids,
                 condition, tasks, future, cancelling, ret, log, nsubmit, held>>

\* Engine.join(timeout) up to its await: a task running job.join() is
\* created for every running and every pending job
engine_join(timeout) ==
  /\ Idle
  /\ calls' = calls
       \cup {Call("engine_join", 0, timeout, FALSE, <<>>,
                  running_view \cup pending_view)}
       \cup {join(j, "engine_join") : j \in running_view \cup pending_view}
  /\ UNCHANGED <<conf, resource, jobs, status, retry_remain, args, dep_job_ids,
                 condition, tasks, future, cancelling, ret, log, nsubmit, held>>

\* the tasks Engine.join created that have not ended
Joining == {c \in calls : c.op = "join" /\ c.who = "engine_join" /\ ~c.woken}

\* a task Engine.join created ends: the task its Job.join waited for has
joined(c) ==
  /\ c \in calls /\ c.op = "join" /\ c.who = "engine_join" /\ c.woken
  /\ calls' = calls \ {c}
  /\ UNCHANGED <<conf, resource, jobs, status, retry_remain, args, dep_job_ids,
                 condition, tasks, future, cancelling, ret, log, nsubmit, held>>

\* Engine.join returns: every task it created has ended
engine_join_returns(c) ==
  /\ c \in calls /\ c.op = "engine_join"
  /\ Joining = {}
  /\ Returns(c, Return("engine_join", 0, c.snap, NoValue, NoException))
  /\ UNCHANGED <<conf, resource, jobs, status, retry_remain, args, dep_job_ids,
                 condition, tasks, future, cancelling, log, nsubmit, held>>

\* the timeout of a call elapses before what it waits for has happened:
\* Job.join returns from asyncio.wait, the polling loop of Engine.wait
\* breaks on total_time <= 0, Engine.join returns from asyncio.wait and
\* leaves the tasks it created waiting
timeout_elapses(c) ==
  /\ c \in calls /\ c.who \in TimedOps
  /\ CASE c.op = "join" -> ~c.woken
       [] c.op = "wait" -> ~wait_finished
       [] OTHER -> Joining # {}
  /\ Returns(c, Return("timeout", c.job,
                       IF c.op = "join" THEN {c.job} ELSE c.snap,
                       NoValue, NoException))
  /\ tasks' = [j \in JobIds |->
                 IF c.op = "join" /\ c.job = j
                   THEN asyncio_wait_timeout(tasks[j]) ELSE tasks[j]]
  /\ UNCHANGED <<conf, resource, jobs, status, retry_remain, args, dep_job_ids,
                 condition, future, cancelling, log, nsubmit, held>>

Timed ==
  \/ \E j \in JobIds : wait_job_timeout(j)
  \/ wait_timeout
  \/ \E t \in {"join", "join_timeout"} : engine_join(t)
  \/ \E c \in calls : timeout_elapses(c)
  \/ \E c \in calls : join_returns(c)
  \/ \E c \in calls : wait_returns(c)
  \/ \E c \in calls : joined(c)
  \/ \E c \in calls : engine_join_returns(c)

NextTimed == LifecycleWoken \/ CallerSubmits \/ Timed

\* a caller that submits, cancels and waits with timeouts
SpecTimed == InitLive /\ [][NextTimed]_vars

\* C21: observation timeouts.  When the timeout of wait_job(job, timeout),
\* wait(timeout) or join(timeout) elapses, the call returns and no job's
\* status, lifecycle tasks or slots change, nor does the ledger; a job that
\* is running still has its lifecycle task in the backend's run.
C21_ObservationTimeouts ==
  [][\A c \in calls : timeout_elapses(c) =>
       /\ status' = status /\ tasks' = tasks
       /\ held' = held /\ resource' = resource
       /\ \A j \in JobIds : status[j] = "running" =>
            \E i \in DOMAIN tasks'[j] : tasks'[j][i] = "run"]_vars

\* C21, witness: a timeout has elapsed on a job that was running and has
\* since run to completion
C21_Witness ==
  /\ ret.op = "timeout" /\ ret.jobs # {}
  /\ \E j \in ret.jobs : status[j] = "done" /\ nsubmit[j] = 1


\* ------------------------------------------------- starting and stopping
\* the loop runs what is ready: it is in run_forever and has not finished
\* the iteration in which it sees the stop
LoopRuns == loop \in {"running", "stopping"}

\* Engine.start: the thread is created at the first call and started unless
\* it is alive (a thread that has terminated cannot be started again:
\* Thread.start raises)
start ==
  /\ Idle
  /\ loop_thread = "none"
  /\ loop' = "running"
  /\ loop_thread' = "alive"
  /\ UNCHANGED <<fixed, ready, dask_client, resource, jobs, status,
                 retry_remain, args, dep_job_ids, condition, tasks, future,
                 cancelling, calls, ret, log, nsubmit, held>>

\* the setter of Engine.dask_client, given an asynchronous client
dask_client_set ==
  /\ Idle
  /\ dask_client = "none"
  /\ dask_client' = "open"
  /\ UNCHANGED <<fixed, loop, loop_thread, ready, resource, jobs, status,
                 retry_remain, args, dep_job_ids, condition, tasks, future,
                 cancelling, calls, ret, log, nsubmit, held>>

\* Engine.stop of an engine that was started, up to self._loop_thread.join():
\* loop.stop() is called in the caller's thread and what it returns, None,
\* is handed to the loop as a callback
stop ==
  /\ Idle
  /\ loop_thread # "none"
  /\ loop' = IF loop = "running" THEN "stopping" ELSE loop
  /\ ready' = Append(ready, "None")
  /\ calls' = {Call("stop", 0, "stop", FALSE, <<>>, {})}
  /\ UNCHANGED <<fixed, loop_thread, dask_client, resource, jobs, status,
                 retry_remain, args, dep_job_ids, condition, tasks, future,
                 cancelling, ret, log, nsubmit, held>>

\* the loop runs the oldest thing handed to it: a callback that is None
\* raises a TypeError, which the loop's exception handler logs; the
\* coroutine of the client's close closes the client
run_ready ==
  /\ LoopRuns
  /\ ready # <<>>
  /\ ready' = Tail(ready)
  /\ dask_client' = IF Head(ready) = "close" THEN "closed" ELSE dask_client
  /\ UNCHANGED <<fixed, loop, loop_thread, resource, jobs, status,
                 retry_remain, args, dep_job_ids, condition, tasks, future,
                 cancelling, calls, ret, log, nsubmit, held>>

\* run_forever returns at the end of the iteration that sees the stop, and
\* the thread with it
run_forever_returns ==
  /\ loop = "stopping"
  /\ loop' = "stopped"
  /\ loop_thread' = "terminated"
  /\ UNCHANGED <<fixed, ready, dask_client, resource, jobs, status,
                 retry_remain, args, dep_job_ids, condition, tasks, future,
                 cancelling, calls, ret, log, nsubmit, held>>

\* Engine.stop after the join of the thread: the close of a client that
\* exists is handed to the loop, and stop returns
stop_returns(c) ==
  /\ c \in calls /\ c.op = "stop"
  /\ loop_thread = "terminated"
  /\ ready' = IF dask_client # "none" THEN Append(ready, "close") ELSE ready
  /\ Returns(c, Return("stop", 0, {}, NoValue, NoException))
  /\ UNCHANGED <<fixed, loop, loop_thread, dask_client, resource, jobs,
                 status, retry_remain, args, dep_job_ids, condition, tasks,
                 future, cancelling, log, nsubmit, held>>

StartStop ==
  \/ start
  \/ dask_client_set
  \/ stop
  \/ run_ready
  \/ run_forever_returns
  \/ \E c \in calls : stop_returns(c)

\* the jobs make progress while the loop runs, and the caller's submits
\* return while it runs
NextStop ==
  \/ LoopRuns /\ Lifecycle
  \/ loop = "running" /\ CallerSubmits
  \/ StartStop

\* an engine just constructed, not started yet, with one slot
InitStop ==
  /\ Constructed([max_jobs : {1}, max_dask_jobs : {Null}], Classes, {NoRaise})
  /\ loop = "created" /\ loop_thread = "none"

SpecStop == InitStop /\ [][NextStop]_vars

\* C22: engine stop.  When Engine.stop() returns on a started engine, the
\* event loop has stopped and its thread has terminated, and the close of a
\* backend client that had been created has been executed.
C22_EngineStop ==
  [][\A c \in calls : stop_returns(c) =>
       /\ loop' = "stopped" /\ loop_thread' = "terminated"
       /\ dask_client # "none" => dask_client' = "closed"]_vars


\* ------------------------------------------------------- the state machine
\* the changes of status on the diagram of the lifecycle: from, to
Diagram ==
  {<<"created", "pending">>, <<"pending", "running">>,
   <<"running", "done">>, <<"running", "failed">>,
   <<"pending", "cancelled">>, <<"running", "cancelled">>}
    \cup {<<t, "pending">> : t \in Terminal}

\* the step takes job j from running back to pending for a retry it had left
Retries(j) ==
  /\ status[j] = "running" /\ status'[j] = "pending"
  /\ retry_remain[j] > 0 /\ retry_remain'[j] = retry_remain[j] - 1

\* C23: state machine conformance.  Every step that changes a job's status
\* takes it along the diagram: created to pending, pending to running,
\* running to done or failed, pending or running to cancelled, a terminal
\* status to pending, or running to pending for a retry that was left.
C23_StateMachine ==
  [][\A j \in JobIds : status'[j] # status[j] =>
       <<status[j], status'[j]>> \in Diagram \/ Retries(j)]_vars


\* --------------------------------------------- the slots of a cluster job
\* job j takes its slots in this step, gives them back in this step
Consumes(j) == held'[j] = held[j] + 1
Releases(j) == held'[j] = held[j] - 1

\* n >= 0 on a count that may be float('inf')
NonNegative(n) == n = Inf \/ n >= 0

\* both classes of the ledger moved by d
Both(d) ==
  /\ resource'.n_job = Plus(resource.n_job, d)
  /\ resource'.n_dask = Plus(resource.n_dask, d)

\* C24: conjunction acquisition for cluster jobs.  A DaskJob starts running
\* only in a step that takes its slots; such a step finds a slot in both
\* jobs_total and cluster and decrements both; a step in which the job gives
\* its slots back increments both; a step in which no job takes or gives
\* back slots changes no counter; and no counter ever goes below 0.
C24_ConjunctionAcquisition ==
  /\ [](NonNegative(resource.n_job) /\ NonNegative(resource.n_dask))
  /\ [][/\ \A j \in JobIds : cls[j] = "DaskJob" =>
             /\ Starts(j) => Consumes(j)
             /\ Consumes(j) =>
                  /\ Positive(resource.n_job) /\ Positive(resource.n_dask)
                  /\ Both(-1)
             /\ Releases(j) => Both(1)
        /\ held' = held => resource' = resource]_vars

\* C24, witness: a cluster job waits for a cluster slot, the only one being
\* held by another cluster job that runs, while jobs_total has slots
C24_Witness ==
  \E a, b \in JobIds :
    /\ cls[a] = "DaskJob" /\ cls[b] = "DaskJob"
    /\ status[a] = "running" /\ held[a] = 1
    /\ status[b] = "pending" /\ TaskOf(b) = "poll" /\ held[b] = 0
    /\ resource.n_dask = 0 /\ Positive(resource.n_job)


\* ------------------------------------------------- the tasks of one job
\* the lifecycle tasks of j that have not ended: each of them can still run
\* a stretch of wait_and_run or on_failed
LiveTasks(j) == {i \in DOMAIN tasks[j] : tasks[j][i] \in LivePc}

\* C25: single lifecycle task.  In every reachable state a job has at most
\* one lifecycle task that has not ended.
C25_SingleLifecycleTask ==
  \A j \in JobIds : Cardinality(LiveTasks(j)) <= 1


\* ------------------------------------------------------------ progress
\* every job whose future is an argument of j is registered
DepsRegistered(j) == \A k \in FutureArgs(j) : args[j][k].fut \in jobs

\* C26: global progress.  With max_jobs >= 1 and the loop running every
\* task that is ready, a registered job that is pending and whose
\* dependencies are all registered eventually is done, failed or cancelled.
C26_GlobalProgress ==
  \A j \in JobIds :
    [](/\ setting.max_jobs # Null /\ setting.max_jobs >= 1
       /\ j \in jobs /\ status[j] = "pending" /\ DepsRegistered(j)
         => <>(status[j] \in Terminal))

=============================================================================
